---- MODULE Spec2Model ----
(***************************************************************************)
(* Model of NowPlaying.py: the SQLite table "games", the module globals    *)
(* selected_game and checkbox_states, the widgets the handlers write to,   *)
(* and one action per event handler.  A title is a sequence of character   *)
(* codes, so that str.strip, str.lower, the ORDER BY of the store and the  *)
(* regular expression of search_games are computed and not assumed.        *)
(***************************************************************************)
EXTENDS Bags, FiniteSets, Integers, Sequences, TLC

VARIABLES games, disk, checkbox_states, selected_game, search_input,
          search_results, all_games_column, games_label, dialog, notify,
          loaded, upload, lastOp

(***************************************************************************)
(* games             the rows of the table as the connection sees them, a  *)
(*                   bag of names (the UNIQUE constraint is in insert)     *)
(* disk              the committed rows, what the database file holds      *)
(* checkbox_states   the dict game_name -> bool                            *)
(* selected_game     None or the single match of the last search           *)
(* search_input      the text of the search box                            *)
(* search_results    the labels of the search_results column               *)
(* all_games_column  the titles of the rows of the All Games list          *)
(* games_label       the count shown in the "All Games (n)" label          *)
(* dialog            None or the selected_games of the open dialog         *)
(* notify            the notification of the handler that ran last         *)
(* loaded            the page has been built                               *)
(* upload            None or the locals of a running handle_csv_upload     *)
(* lastOp            history: the handler that ran last, with what the     *)
(*                   properties need of its arguments                      *)
(***************************************************************************)
vars == <<games, disk, checkbox_states, selected_game, search_input,
          search_results, all_games_column, games_label, dialog, notify,
          loaded, upload, lastOp>>

(***************************************************************************)
(* Bounds of the exploration.                                              *)
(***************************************************************************)
MaxChars == 4
MaxTerm == 2
MaxRows == 2
MaxBatch == 3
MaxUpload == 1

(***************************************************************************)
(* Characters (ASCII codes) and the strings typed or uploaded.             *)
(***************************************************************************)
SeqsUpTo(S, n) == UNION {[1..k -> S] : k \in 0..n}

\* what is typed in the search specification: titles of A a _ - and the
\* space, search terms of A a - and the space
SearchAlphabet == {65, 97, 95, 45, 32}
TermAlphabet == {65, 97, 45, 32}
SearchTerms == SeqsUpTo(TermAlphabet, MaxTerm)

\* what is typed or uploaded elsewhere: "", " ", "a", " a ", "b", "A"
FormStrings == {<<>>, <<32>>, <<97>>, <<32, 97, 32>>, <<98>>, <<65>>}

\* a row of csv.reader: no field (blank line) or the first field
Rows(strings) == {<<>>} \cup {<<f>> : f \in strings}
FormRows == Rows(FormStrings)
SmallFiles == SeqsUpTo(FormRows, MaxUpload)
Files == SeqsUpTo(FormRows, MaxBatch)

\* None and the one-element option
None == {}
Some(x) == {x}
The(o) == CHOOSE x \in o : TRUE

MinOf(S) == CHOOSE x \in S : \A y \in S : x <= y
MaxOf(S) == CHOOSE x \in S : \A y \in S : x >= y

(***************************************************************************)
(* Python str and re primitives.                                           *)
(***************************************************************************)
IsSpace(c) == c \in (9..13) \cup (28..32)

IsUpper(c) == c \in 65..90

IsWordChar(c) == c \in (48..57) \cup (65..90) \cup (97..122) \cup {95}

strip(s) ==
    LET kept == {i \in 1..Len(s) : ~IsSpace(s[i])}
    IN  IF kept = {} THEN <<>> ELSE SubSeq(s, MinOf(kept), MaxOf(kept))

lower(s) == [i \in 1..Len(s) |-> IF IsUpper(s[i]) THEN s[i] + 32 ELSE s[i]]

\* the order of str.__lt__ and of SQLite's BINARY collation
StrLess(a, b) ==
    LET n == IF Len(a) < Len(b) THEN Len(a) ELSE Len(b)
        diff == {i \in 1..n : a[i] # b[i]}
    IN  IF diff = {} THEN Len(a) < Len(b)
        ELSE a[MinOf(diff)] < b[MinOf(diff)]

\* \b at offset i (0-based) of s
WordBoundary(s, i) ==
    LET before == i >= 1 /\ IsWordChar(s[i])
        after == i < Len(s) /\ IsWordChar(s[i + 1])
    IN  before # after

\* re.compile(rf'\b{re.escape(term)}').search(s) is not None
word_start_search(term, s) ==
    \E i \in 0..(Len(s) - Len(term)) :
        /\ WordBoundary(s, i)
        /\ SubSeq(s, i + 1, i + Len(term)) = term

(***************************************************************************)
(* The store.                                                              *)
(***************************************************************************)
RECURSIVE OrderByName(_)
OrderByName(table) ==
    IF BagToSet(table) = {} THEN <<>>
    ELSE LET names == BagToSet(table)
             first == CHOOSE x \in names : \A y \in names : x = y \/ StrLess(x, y)
             rest == [n \in names \ {first} |-> table[n]]
         IN  [i \in 1..table[first] |-> first] \o OrderByName(rest)

Names(table) == BagToSet(table)

\* insert without the UNIQUE constraint
insert_no_unique(table, name) ==
    [ok |-> TRUE, table |-> table (+) SetToBag({name})]

\* INSERT INTO games (name) VALUES (?) under name TEXT NOT NULL UNIQUE
insert(table, name) ==
    IF BagIn(name, table)
    THEN [ok |-> FALSE, table |-> table]
    ELSE [ok |-> TRUE, table |-> table (+) SetToBag({name})]

\* DELETE FROM games WHERE name = ? for every name of selected_games
delete(table, selected_games) ==
    [n \in Names(table) \ selected_games |-> table[n]]

(***************************************************************************)
(* search_games                                                            *)
(***************************************************************************)
\* search_titles whose partial matches do not leave out the exact ones
search_titles_overlap(term, all_titles) ==
    LET t == strip(term)
        term_lower == lower(t)
        Exact(title) == lower(title) = term_lower
        Partial(title) == word_start_search(term_lower, lower(title))
    IN  IF t = <<>> THEN <<>>
        ELSE SelectSeq(all_titles, Exact) \o SelectSeq(all_titles, Partial)

\* search_titles that returns partial_matches + exact_matches
search_titles_partial_first(term, all_titles) ==
    LET t == strip(term)
        term_lower == lower(t)
        Exact(title) == lower(title) = term_lower
        Partial(title) == /\ word_start_search(term_lower, lower(title))
                          /\ lower(title) # term_lower
    IN  IF t = <<>> THEN <<>>
        ELSE SelectSeq(all_titles, Partial) \o SelectSeq(all_titles, Exact)

search_titles(term, all_titles) ==
    LET t == strip(term)
        term_lower == lower(t)
        Exact(title) == lower(title) = term_lower
        Partial(title) == /\ word_start_search(term_lower, lower(title))
                          /\ lower(title) # term_lower
    IN  IF t = <<>> THEN <<>>
        ELSE SelectSeq(all_titles, Exact) \o SelectSeq(all_titles, Partial)

search_games(term, table) == search_titles(term, OrderByName(table))

\* the content of the search_results column
Cleared == [labels |-> <<>>, no_matches |-> FALSE]

update_search_results(input, table) ==
    LET term == strip(input)
        results == search_games(term, table)
    IN  IF term = <<>> THEN Cleared
        ELSE IF results # <<>> THEN [labels |-> results, no_matches |-> FALSE]
        ELSE [labels |-> <<>>, no_matches |-> TRUE]

(***************************************************************************)
(* refresh_all_games and create_checkbox                                   *)
(***************************************************************************)
\* list.sort(key=lambda g: g.lower()): stable
RECURSIVE SortByLower(_)
SortByLower(s) ==
    IF s = <<>> THEN <<>>
    ELSE LET least == {i \in 1..Len(s) :
                          \A j \in 1..Len(s) : ~StrLess(lower(s[j]), lower(s[i]))}
             k == MinOf(least)
         IN  <<s[k]>> \o SortByLower(SubSeq(s, 1, k - 1) \o SubSeq(s, k + 1, Len(s)))

\* create_checkbox that adds no key
create_checkbox_no_key(states, shown) == states

create_checkbox(states, shown) ==
    [n \in DOMAIN states \cup shown |->
        IF n \in DOMAIN states THEN states[n] ELSE FALSE]

refresh_all_games(table, states) ==
    /\ games_label' = Len(OrderByName(table))
    /\ all_games_column' = SortByLower(OrderByName(table))
    /\ checkbox_states' = create_checkbox(states, Names(table))

(***************************************************************************)
(* State after the module is imported: the table is what the database file *)
(* holds, no page has been built.                                          *)
(***************************************************************************)
Init ==
    /\ games = EmptyBag
    /\ disk = EmptyBag
    /\ checkbox_states = <<>>
    /\ selected_game = None
    /\ search_input = <<>>
    /\ search_results = Cleared
    /\ all_games_column = <<>>
    /\ games_label = 0
    /\ dialog = None
    /\ notify = None
    /\ loaded = FALSE
    /\ upload = None
    /\ lastOp = [op |-> "init"]

\* a handler can run: the page exists, no dialog covers it, no handler is running
Idle == loaded /\ dialog = None /\ upload = None

selectedNames(states) == {n \in DOMAIN states : states[n]}

(***************************************************************************)
(* main: the page is built (or built again)                                *)
(***************************************************************************)
main ==
    /\ upload = None
    /\ loaded' = TRUE
    /\ search_input' = <<>>
    /\ search_results' = Cleared
    /\ dialog' = None
    /\ notify' = None
    /\ refresh_all_games(games, checkbox_states)
    /\ UNCHANGED <<games, disk, selected_game, upload>>

(***************************************************************************)
(* add_game                                                                *)
(***************************************************************************)
add_game(typed) ==
    LET game == strip(typed)
        r == insert(games, game)
    IN  /\ Idle
        /\ IF game # <<>> /\ r.ok
           THEN /\ games' = r.table
                /\ disk' = r.table
                /\ search_results' = update_search_results(search_input, r.table)
                /\ refresh_all_games(r.table, checkbox_states)
           ELSE UNCHANGED <<games, disk, search_results, all_games_column,
                            games_label, checkbox_states>>
        /\ notify' = None
        /\ UNCHANGED <<selected_game, search_input, dialog, loaded, upload>>

(***************************************************************************)
(* handle_csv_upload                                                       *)
(***************************************************************************)
\* ImportRow that inserts row[0] as it is
ImportRow_no_strip(st, row) ==
    IF row = <<>> THEN st
    ELSE LET game == row[1]
             r == insert(st.table, game)
         IN  IF strip(game) = <<>> THEN st
             ELSE IF r.ok
                  THEN [st EXCEPT !.table = r.table, !.imported = @ + 1]
                  ELSE [st EXCEPT !.skipped = @ + 1]

\* one iteration of "for row in reader"
ImportRow(st, row) ==
    IF row = <<>> THEN st
    ELSE LET game == strip(row[1])
             r == insert(st.table, game)
         IN  IF game = <<>> THEN st
             ELSE IF r.ok
                  THEN [st EXCEPT !.table = r.table, !.imported = @ + 1]
                  ELSE [st EXCEPT !.skipped = @ + 1]

RECURSIVE ImportRows(_, _)
ImportRows(st, file) ==
    IF file = <<>> THEN st
    ELSE ImportRows(ImportRow(st, Head(file)), Tail(file))

handle_csv_upload(file) ==
    LET st == ImportRows([table |-> games, imported |-> 0, skipped |-> 0], file)
    IN  /\ Idle
        /\ games' = st.table
        /\ disk' = st.table
        /\ notify' = Some([text |-> "Imported", imported |-> st.imported,
                           skipped |-> st.skipped])
        /\ refresh_all_games(st.table, checkbox_states)
        /\ UNCHANGED <<selected_game, search_input, search_results, dialog,
                       loaded, upload>>

\* the same handler, one row at a time
upload_begin ==
    /\ Idle
    /\ upload' = Some([imported |-> 0, skipped |-> 0, read |-> 0])
    /\ notify' = None
    /\ UNCHANGED <<games, disk, checkbox_states, selected_game, search_input,
                   search_results, all_games_column, games_label, dialog, loaded>>

\* upload_row with conn.commit() inside the loop
upload_row_commit(row) ==
    /\ upload # None
    /\ LET u == The(upload)
           st == ImportRow([table |-> games, imported |-> u.imported,
                            skipped |-> u.skipped], row)
       IN  /\ games' = st.table
           /\ disk' = st.table
           /\ upload' = Some([imported |-> st.imported, skipped |-> st.skipped,
                              read |-> u.read + 1])
    /\ UNCHANGED <<checkbox_states, selected_game, search_input,
                   search_results, all_games_column, games_label, dialog,
                   notify, loaded>>

upload_row(row) ==
    /\ upload # None
    /\ LET u == The(upload)
           st == ImportRow([table |-> games, imported |-> u.imported,
                            skipped |-> u.skipped], row)
       IN  /\ games' = st.table
           /\ upload' = Some([imported |-> st.imported, skipped |-> st.skipped,
                              read |-> u.read + 1])
    /\ UNCHANGED <<disk, checkbox_states, selected_game, search_input,
                   search_results, all_games_column, games_label, dialog,
                   notify, loaded>>

upload_end ==
    /\ upload # None
    /\ disk' = games
    /\ notify' = Some([text |-> "Imported", imported |-> The(upload).imported,
                       skipped |-> The(upload).skipped])
    /\ refresh_all_games(games, checkbox_states)
    /\ upload' = None
    /\ UNCHANGED <<games, selected_game, search_input, search_results, dialog,
                   loaded>>

(***************************************************************************)
(* the checkboxes                                                          *)
(***************************************************************************)
\* a click on the checkbox create_checkbox bound to checkbox_states[game_name]
toggle(game_name) ==
    /\ Idle
    /\ \E i \in 1..Len(all_games_column) : all_games_column[i] = game_name
    /\ checkbox_states' = [checkbox_states EXCEPT ![game_name] = ~@]
    /\ notify' = None
    /\ UNCHANGED <<games, disk, selected_game, search_input, search_results,
                   all_games_column, games_label, dialog, loaded, upload>>

\* set_all that writes True whatever the value
set_all_true(states, titles, value) ==
    [n \in DOMAIN states \cup titles |-> IF n \in titles THEN TRUE ELSE states[n]]

set_all(states, titles, value) ==
    [n \in DOMAIN states \cup titles |-> IF n \in titles THEN value ELSE states[n]]

select_all_games ==
    /\ Idle
    /\ refresh_all_games(games, set_all(checkbox_states, Names(games), TRUE))
    /\ notify' = None
    /\ UNCHANGED <<games, disk, selected_game, search_input, search_results,
                   dialog, loaded, upload>>

clear_selected_games ==
    /\ Idle
    /\ refresh_all_games(games, set_all(checkbox_states, Names(games), FALSE))
    /\ notify' = None
    /\ UNCHANGED <<games, disk, selected_game, search_input, search_results,
                   dialog, loaded, upload>>

(***************************************************************************)
(* confirm_bulk_deletion and its dialog                                    *)
(***************************************************************************)
confirm_bulk_deletion ==
    LET selected_games == selectedNames(checkbox_states)
    IN  /\ Idle
        /\ IF selected_games = {}
           THEN /\ notify' = Some([text |-> "No games selected for deletion."])
                /\ dialog' = dialog
           ELSE /\ dialog' = Some(selected_games)
                /\ notify' = None
        /\ UNCHANGED <<games, disk, checkbox_states, selected_game, search_input,
                       search_results, all_games_column, games_label, loaded,
                       upload>>

\* do_delete without checkbox_states.pop
pop_none(states, selected_games) == states

pop_all(states, selected_games) ==
    [n \in DOMAIN states \ selected_games |-> states[n]]

do_delete ==
    /\ loaded /\ dialog # None
    /\ LET selected_games == The(dialog)
           table == delete(games, selected_games)
       IN  /\ games' = table
           /\ disk' = table
           /\ refresh_all_games(table, pop_all(checkbox_states, selected_games))
           /\ notify' = Some([text |-> "Deleted", count |-> Cardinality(selected_games)])
    /\ dialog' = None
    /\ UNCHANGED <<selected_game, search_input, search_results, loaded, upload>>

dialog_close ==
    /\ loaded /\ dialog # None
    /\ dialog' = None
    /\ notify' = None
    /\ UNCHANGED <<games, disk, checkbox_states, selected_game, search_input,
                   search_results, all_games_column, games_label, loaded, upload>>

(***************************************************************************)
(* the search box                                                          *)
(***************************************************************************)
\* Enter in the search box holding the text typed
handle_input(typed) ==
    LET term == strip(typed)
        matches == search_games(term, games)
    IN  /\ Idle
        /\ search_input' = typed
        /\ IF term = <<>>
           THEN /\ search_results' = Cleared
                /\ selected_game' = None
                /\ refresh_all_games(games, checkbox_states)
           ELSE IF matches = <<>>
           THEN /\ search_results' = [labels |-> <<>>, no_matches |-> TRUE]
                /\ UNCHANGED <<selected_game, all_games_column, games_label,
                               checkbox_states>>
           ELSE /\ search_results' = [labels |-> matches, no_matches |-> FALSE]
                /\ selected_game' = IF Len(matches) = 1 THEN Some(matches[1]) ELSE None
                /\ refresh_all_games(games, checkbox_states)
        /\ notify' = None
        /\ UNCHANGED <<games, disk, dialog, loaded, upload>>

clear_search ==
    /\ Idle
    /\ selected_game' = None
    /\ search_input' = <<>>
    /\ search_results' = Cleared
    /\ refresh_all_games(games, checkbox_states)
    /\ notify' = None
    /\ UNCHANGED <<games, disk, dialog, loaded, upload>>

(***************************************************************************)
(* The process stops (or is killed) and is started again: the connection's *)
(* open transaction is rolled back, the module globals are initialised.    *)
(***************************************************************************)
restart ==
    /\ games' = disk
    /\ checkbox_states' = <<>>
    /\ selected_game' = None
    /\ search_input' = <<>>
    /\ search_results' = Cleared
    /\ all_games_column' = <<>>
    /\ games_label' = 0
    /\ dialog' = None
    /\ notify' = None
    /\ loaded' = FALSE
    /\ upload' = None
    /\ UNCHANGED disk

(***************************************************************************)
(* Spec: the page driven by a user, every handler run to completion.       *)
(***************************************************************************)
\* the table has room for n more rows
Room(n) == BagCardinality(games) + n <= MaxRows

Inserted == Names(games') \ Names(games)

\* the names deleted by the operation just before that are inserted again
Readded == IF lastOp.op = "do_delete" THEN lastOp.deleted \cap Inserted ELSE {}

UiMain == main /\ lastOp' = [op |-> "main"]

UiAdd ==
    \E typed \in FormStrings :
        /\ Room(1)
        /\ add_game(typed)
        /\ lastOp' = [op |-> "add_game", readded |-> Readded]

UiUpload ==
    \E file \in SmallFiles :
        /\ Room(Len(file))
        /\ handle_csv_upload(file)
        /\ lastOp' = [op |-> "handle_csv_upload", readded |-> Readded]

UiToggle ==
    \E game_name \in Names(games) :
        toggle(game_name) /\ lastOp' = [op |-> "toggle"]

UiSelectAll == select_all_games /\ lastOp' = [op |-> "select_all_games"]

UiClearSelected ==
    /\ clear_selected_games
    /\ lastOp' = [op |-> "clear_selected_games",
                  after_select_all |-> lastOp.op = "select_all_games"]

UiConfirm == confirm_bulk_deletion /\ lastOp' = [op |-> "confirm_bulk_deletion"]

UiDelete == do_delete /\ lastOp' = [op |-> "do_delete", deleted |-> The(dialog)]

UiCancel == dialog_close /\ lastOp' = [op |-> "dialog_close"]

UiSearch ==
    \E typed \in FormStrings :
        handle_input(typed) /\ lastOp' = [op |-> "handle_input"]

UiClearSearch == clear_search /\ lastOp' = [op |-> "clear_search"]

UiRestart == restart /\ lastOp' = [op |-> "restart"]

Next ==
    \/ UiMain
    \/ UiAdd
    \/ UiUpload
    \/ UiToggle
    \/ UiSelectAll
    \/ UiClearSelected
    \/ UiConfirm
    \/ UiDelete
    \/ UiCancel
    \/ UiSearch
    \/ UiClearSearch
    \/ UiRestart

Spec == Init /\ [][Next]_vars

(***************************************************************************)
(* SpecSearch: a catalog of at most MaxChars characters is built through   *)
(* the store, then one search is made; every string over SearchAlphabet is *)
(* typed.                                                                  *)
(***************************************************************************)
Searched == lastOp.op = "handle_input"

\* the characters the table holds
RECURSIVE TotalLen(_)
TotalLen(titles) ==
    IF titles = <<>> THEN 0 ELSE Len(Head(titles)) + TotalLen(Tail(titles))

Chars(table) == TotalLen(OrderByName(table))

SearchMain == ~loaded /\ main /\ lastOp' = [op |-> "main"]

SearchAdd ==
    /\ ~Searched
    /\ \E typed \in SeqsUpTo(SearchAlphabet, MaxChars - Chars(games)) :
        /\ add_game(typed)
        /\ lastOp' = [op |-> "add_game"]

SearchEnter ==
    /\ ~Searched
    /\ \E typed \in SearchTerms :
        handle_input(typed) /\ lastOp' = [op |-> "handle_input"]

NextSearch == SearchMain \/ SearchAdd \/ SearchEnter

SpecSearch == Init /\ [][NextSearch]_vars

(***************************************************************************)
(* SpecImport: a catalog is built, then one file is uploaded.              *)
(***************************************************************************)
Uploaded == lastOp.op = "handle_csv_upload"

ImportMain == ~loaded /\ main /\ lastOp' = [op |-> "main"]

ImportAdd ==
    /\ ~Uploaded
    /\ Room(1)
    /\ \E typed \in FormStrings :
        /\ add_game(typed)
        /\ lastOp' = [op |-> "add_game"]

ImportUpload ==
    /\ ~Uploaded
    /\ \E file \in Files :
        /\ handle_csv_upload(file)
        /\ lastOp' = [op |-> "handle_csv_upload", file |-> file, before |-> games]

NextImport == ImportMain \/ ImportAdd \/ ImportUpload

SpecImport == Init /\ [][NextImport]_vars

(***************************************************************************)
(* SpecCrash: the handlers that write to the store, handle_csv_upload row  *)
(* by row; the process can be killed between any two steps.                *)
(***************************************************************************)
CrashMain == main /\ lastOp' = [op |-> "main"]

CrashAdd ==
    \E typed \in FormStrings :
        /\ Room(1)
        /\ add_game(typed)
        /\ lastOp' = [op |-> "add_game"]

CrashToggle ==
    \E game_name \in Names(games) :
        toggle(game_name) /\ lastOp' = [op |-> "toggle"]

CrashConfirm == confirm_bulk_deletion /\ lastOp' = [op |-> "confirm_bulk_deletion"]

CrashDelete == do_delete /\ lastOp' = [op |-> "do_delete"]

CrashCancel == dialog_close /\ lastOp' = [op |-> "dialog_close"]

CrashUploadBegin ==
    /\ upload_begin
    /\ lastOp' = [op |-> "upload_begin", before |-> games, inserted |-> {}]

CrashUploadRow ==
    /\ upload # None
    /\ The(upload).read < MaxBatch
    /\ \E row \in FormRows :
        /\ upload_row(row)
        /\ lastOp' = [op |-> "upload_row", before |-> lastOp.before,
                      inserted |-> lastOp.inserted \cup Inserted]

CrashUploadEnd ==
    /\ upload_end
    /\ lastOp' = [op |-> "upload_end", before |-> lastOp.before,
                  inserted |-> lastOp.inserted]

CrashRestart ==
    /\ restart
    /\ lastOp' = IF upload # None
                 THEN [op |-> "restart", interrupted |-> TRUE,
                       before |-> lastOp.before, inserted |-> lastOp.inserted]
                 ELSE [op |-> "restart", interrupted |-> FALSE,
                       before |-> games, inserted |-> {}]

NextCrash ==
    \/ CrashMain
    \/ CrashAdd
    \/ CrashToggle
    \/ CrashConfirm
    \/ CrashDelete
    \/ CrashCancel
    \/ CrashUploadBegin
    \/ CrashUploadRow
    \/ CrashUploadEnd
    \/ CrashRestart

SpecCrash == Init /\ [][NextCrash]_vars

(***************************************************************************)
(* Properties.                                                             *)
(***************************************************************************)
Range(s) == {s[i] : i \in 1..Len(s)}

NoDup(s) == \A i, j \in 1..Len(s) : i # j => s[i] # s[j]

\* what the search just made was about and what it put on the page
Query == strip(search_input)
Found == search_results.labels
IsExactMatch(title) == lower(title) = lower(Query)
ExactGroup == SelectSeq(Found, IsExactMatch)

Doom == <<68, 111, 111, 109>>
DoomEternal == <<68, 111, 111, 109, 32, 69, 116, 101, 114, 110, 97, 108>>
Quake == <<81, 117, 97, 107, 101>>
Halo == <<72, 97, 108, 111>>
Portal == <<80, 111, 114, 116, 97, 108>>

\* search_games("doom") on the catalog {Doom, Doom Eternal, Quake}
DoomSearch == search_titles(lower(Doom), OrderByName(SetToBag({Doom, DoomEternal, Quake})))

\* the upload of ["Halo", "", " Halo ", "Portal"] to an empty table
HaloUpload ==
    ImportRows([table |-> EmptyBag, imported |-> 0, skipped |-> 0],
               << <<Halo>>, <<>>, << <<32>> \o Halo \o <<32>> >>, <<Portal>> >>)

\* C1: a name removed by a bulk deletion is not among the selected names
\* right after it, and a name inserted (again) has its flag false right
\* after the insertion.
C1_DeletedNeverResurrects ==
    [][ /\ \A n \in Names(games) \ Names(games') :
              n \notin selectedNames(checkbox_states')
        /\ \A n \in Names(games') \ Names(games) :
              n \in DOMAIN checkbox_states' /\ ~checkbox_states'[n] ]_vars

C1_Witness ==
    /\ lastOp.op \in {"add_game", "handle_csv_upload"}
    /\ \E n \in lastOp.readded : n \in Names(games) /\ ~checkbox_states[n]

\* C2: once the page is loaded the keys of checkbox_states are exactly the
\* names of the catalog, and a key is created with the flag false.
C2_KeysAreCatalog ==
    /\ [](loaded => DOMAIN checkbox_states = Names(games))
    /\ [][ \A n \in DOMAIN checkbox_states' \ DOMAIN checkbox_states :
              ~checkbox_states'[n] ]_vars

C2_Witness ==
    /\ loaded
    /\ lastOp.op = "do_delete"
    /\ Names(games) # {}

\* C3: the list a search puts out has no name twice and holds only names of
\* the catalog.
C3_NoDuplicatesAllMembers ==
    Searched => NoDup(Found) /\ Range(Found) \subseteq Names(games)

C3_Witness ==
    /\ Searched
    /\ Len(Found) = 2
    /\ Cardinality(Names(games)) = 2

\* C4: in the list a search puts out every exact match comes before every
\* entry matched at a word boundary only; {Doom, Doom Eternal, Quake} with
\* "doom" gives [Doom, Doom Eternal].
C4_ExactFirst ==
    Searched =>
        /\ \A i, j \in 1..Len(Found) :
              i < j /\ IsExactMatch(Found[j]) => IsExactMatch(Found[i])
        /\ DoomSearch = <<Doom, DoomEternal>>

C4_Witness ==
    /\ Searched
    /\ Len(Found) = 2
    /\ IsExactMatch(Found[1])
    /\ ~IsExactMatch(Found[2])

\* C5: within the exact group and within the word-boundary group the names
\* are in ascending case-insensitive order.
C5_GroupsInCaseInsensitiveOrder ==
    Searched =>
        \A i, j \in 1..Len(Found) :
            i < j /\ (IsExactMatch(Found[i]) <=> IsExactMatch(Found[j]))
                => ~StrLess(lower(Found[j]), lower(Found[i]))

\* a word boundary as the glossary has it: the start of the name or the
\* position right after a character that is not alphanumeric
IsAlnum(c) == c \in (48..57) \cup (65..90) \cup (97..122)

OccursAtWordStart(q, s) ==
    \E i \in 0..(Len(s) - Len(q)) :
        /\ i = 0 \/ ~IsAlnum(s[i])
        /\ SubSeq(s, i + 1, i + Len(q)) = q

\* C6: an entry that is not an exact match is put out if and only if the
\* query occurs in it, case-insensitively, at the start of the name or right
\* after a non-alphanumeric character.
C6_WordStartOccurrence ==
    Searched /\ Query # <<>> =>
        \A t \in Names(games) :
            ~IsExactMatch(t) =>
                (t \in Range(Found) <=> OccursAtWordStart(lower(Query), lower(t)))

\* C7 as stated: the exact group has 0 or 1 elements.
C7_AtMostOneExact == Searched => Len(ExactGroup) <= 1

\* C7 as amended: at most one entry equals the trimmed query character for
\* character; the exact group is every catalog entry whose lower-case form
\* is the lower-cased trimmed query, each once.
C7_ExactGroupIsCaseVariants ==
    Searched /\ Query # <<>> =>
        /\ Len(SelectSeq(Found, LAMBDA t : t = Query)) <= 1
        /\ NoDup(ExactGroup)
        /\ Range(ExactGroup) = {t \in Names(games) : lower(t) = lower(Query)}

C7_Witness ==
    /\ Searched
    /\ Len(ExactGroup) = 2

\* the rows of a file that hold a title, and the titles
TitleRows(file) == {i \in 1..Len(file) : file[i] # <<>> /\ strip(file[i][1]) # <<>>}
Titles(file) == {strip(file[i][1]) : i \in TitleRows(file)}

\* C8: an upload imports the distinct trimmed non-empty names that were not
\* in the catalog, counts every other non-empty line as skipped, counts no
\* empty line, and leaves the catalog plus exactly the new names;
\* ["Halo", "", " Halo ", "Portal"] on an empty catalog: imported 2, skipped 1.
C8_ImportCounts ==
    Uploaded =>
        LET new == Titles(lastOp.file) \ Names(lastOp.before)
        IN  /\ notify = Some([text |-> "Imported",
                              imported |-> Cardinality(new),
                              skipped |-> Cardinality(TitleRows(lastOp.file))
                                            - Cardinality(new)])
            /\ games = lastOp.before (+) SetToBag(new)
            /\ disk = games
            /\ HaloUpload.imported = 2
            /\ HaloUpload.skipped = 1
            /\ HaloUpload.table = SetToBag({Halo, Portal})

C8_Witness ==
    /\ Uploaded
    /\ The(notify).imported >= 1
    /\ The(notify).skipped >= 1
    /\ Cardinality(TitleRows(lastOp.file)) < Len(lastOp.file)

\* C9: after select_all_games every name of the catalog is mapped to true
\* and no other key is changed; after clear_selected_games no name is
\* selected.
C9_SelectAllClearAll ==
    /\ [](lastOp.op = "select_all_games" =>
             \A n \in Names(games) : checkbox_states[n])
    /\ [](lastOp.op = "clear_selected_games" =>
             selectedNames(checkbox_states) = {})
    /\ [][ lastOp'.op = "select_all_games" =>
             \A k \in DOMAIN checkbox_states \ Names(games) :
                 k \in DOMAIN checkbox_states' /\ checkbox_states'[k] = checkbox_states[k] ]_vars

C9_Witness ==
    /\ lastOp.op = "clear_selected_games"
    /\ lastOp.after_select_all
    /\ Names(games) # {}

Interrupted == lastOp.op = "restart" /\ lastOp.interrupted

====
